---- MODULE Spec2Model ----
(***************************************************************************)
(* Model of utils/evaluation.py: the evaluation loop all_together and the *)
(* heatmap renderer draw_confusion_matrix.                                 *)
(*                                                                         *)
(* Tensors are a shape (sequence of dimension sizes) plus flat storage.    *)
(* Python floats are modelled as exact rationals <<n, d>> in lowest terms. *)
(* Values produced by calls into the numeric framework whose arithmetic is *)
(* not part of this file (binary_cross_entropy, _dice_loss, _iou_loss) are *)
(* carried by the dataset item as the value the call returns on it.        *)
(***************************************************************************)
EXTENDS Integers, Sequences, FiniteSets, TLC

\* acc holds the locals logits, targets, total, correct, bce, dice and iou of
\* all_together; out holds what it printed and what it returned
VARIABLES dataset, verbose, pc, idx, evalMode, calls, acc, out, err,
          call, fig

evalVars == <<dataset, verbose, pc, idx, evalMode, calls, acc, out, err>>
drawVars == <<call, fig>>
vars == <<dataset, verbose, pc, idx, evalMode, calls, acc, out, err, call, fig>>

(* ------------------------------ bounds --------------------------------- *)
MaxItems == 2
MaxBatch == 2
NumClasses == 2
InChannels == 3
MaxDim == 3
MaxTotal == 3

(* -------------------------- program constants -------------------------- *)
NumLabels == 6

(* ---------------------------- float model ------------------------------ *)
Abs(n) == IF n < 0 THEN 0 - n ELSE n

RECURSIVE GCD(_, _)
GCD(a, b) == IF b = 0 THEN a ELSE GCD(b, a % b)

Rat(n, d) == LET g == GCD(Abs(n), d) IN <<n \div g, d \div g>>

Zero == <<0, 1>>

RAdd(a, b) == Rat(a[1] * b[2] + b[1] * a[2], a[2] * b[2])

RMulInt(a, k) == Rat(a[1] * k, a[2])

RDivInt(a, k) == Rat(a[1], a[2] * k)

RSubFrom(k, a) == Rat(k * a[2] - a[1], a[2])

RMul(a, b) == Rat(a[1] * b[1], a[2] * b[2])

\* numbers that may be nan: <<"num", rational>> or NaN
NaN == <<"nan", Zero>>

Num(r) == <<"num", r>>

\* numpy division a / b of non-negative numbers that may be nan; 0 / 0 is nan
NpDiv(a, b) ==
    IF a = NaN \/ b = NaN THEN NaN
    ELSE IF b[2][1] = 0 THEN NaN
    ELSE Num(Rat(a[2][1] * b[2][2], a[2][2] * b[2][1]))

NpMul(a, b) == IF a = NaN \/ b = NaN THEN NaN ELSE Num(RMul(a[2], b[2]))

NpAdd(a, b) == IF a = NaN \/ b = NaN THEN NaN ELSE Num(RAdd(a[2], b[2]))

NpInt(n) == Num(<<n, 1>>)

\* round n/d (n >= 0, d > 0) to the nearest integer, ties to even
RoundHalfEven(n, d) ==
    LET q == n \div d
        r == n % d
    IN  IF 2 * r < d THEN q
        ELSE IF 2 * r > d THEN q + 1
        ELSE IF q % 2 = 0 THEN q ELSE q + 1

\* "{:W.Pf}".format(v): the number of 10^-places units that is printed
Fixed(v, places) ==
    IF v[1] < 0 THEN 0 - RoundHalfEven((0 - v[1]) * 10 ^ places, v[2])
    ELSE RoundHalfEven(v[1] * 10 ^ places, v[2])

\* "{:0.3f}".format(v) of a number that may be nan
Fixed3(v) == IF v = NaN THEN <<"nan", 0>> ELSE <<"num", Fixed(v[2], 3)>>

\* "{0:.2%}".format(v): hundredths of a percent, or nan
Percent2(v) == IF v = NaN THEN <<"nan", 0>> ELSE <<"num", Fixed(RMulInt(v[2], 100), 2)>>

(* ------------------------------ tensors -------------------------------- *)
Ndim(x) == Len(x)

Size0(x) == x[1]

Unsqueeze0(x) == <<1>> \o x

Clamp01(v) == [c \in DOMAIN v |-> IF v[c] < 0 THEN 0 ELSE IF v[c] > 1 THEN 1 ELSE v[c]]

\* argmax over the class dimension: 0-based index of the first maximum
Argmax(v) ==
    (CHOOSE c \in DOMAIN v :
        /\ \A e \in DOMAIN v : v[e] <= v[c]
        /\ \A e \in DOMAIN v : e < c => v[e] < v[c]) - 1

RECURSIVE Cat(_)
Cat(ts) == IF ts = <<>> THEN <<>> ELSE Head(ts) \o Cat(Tail(ts))

RECURSIVE CountEq(_, _)
CountEq(a, b) ==
    IF a = <<>> THEN 0
    ELSE (IF Head(a) = Head(b) THEN 1 ELSE 0) + CountEq(Tail(a), Tail(b))

(* ------------------------------ dataset -------------------------------- *)
\* model output for one pixel: class scores, first maximum at class k
PredVecs == {[c \in 1..NumClasses |-> IF c >= k THEN 1 ELSE 0] : k \in 1..NumClasses}

\* target for one pixel: a mask that is "on" (value 2, clamped to 1) in class k
TrueVecs == {[c \in 1..NumClasses |-> IF c = k THEN 2 ELSE 0] : k \in 1..NumClasses}

\* pixels of the evaluated images: they belong to the last class, and are
\* predicted as the first or as the last class
Pixels == {p \in [pred : PredVecs, true : TrueVecs] :
              /\ Argmax(p.true) = NumClasses - 1
              /\ Argmax(p.pred) \in {0, NumClasses - 1}}

\* values the three loss calls return on a batch
Losses == {[bce |-> <<0, 1>>, dice |-> <<1, 3>>, iou |-> <<1, 1>>],
           [bce |-> <<1, 2>>, dice |-> <<2, 3>>, iou |-> <<1, 2>>]}

NoLoss == [bce |-> Zero, dice |-> Zero, iou |-> Zero]

\* the samples of a batch, those predicted as the first class first
Batches(n) == {b \in [1..n -> Pixels] :
                 \A k \in 1..(n - 1) : Argmax(b[k].pred) <= Argmax(b[k + 1].pred)}

\* x of shape (N, C, H, W) with H = W = 1, one pixel per sample
Items4D == UNION {[x : {<<n, InChannels, 1, 1>>}, pix : Batches(n), loss : Losses] :
                    n \in 1..MaxBatch}

Items3D == [x : {<<InChannels, 1, 1>>}, pix : [1..1 -> Pixels], loss : Losses]

\* x of two or five dimensions, holding one pixel
ItemsBad == [x : {<<1, 1>>, <<1, 1, InChannels, 1, 1>>},
             pix : {<<CHOOSE p \in Pixels : Argmax(p.pred) = 0>>},
             loss : {NoLoss}]

Items == Items4D \cup Items3D \cup ItemsBad

Datasets == UNION {[1..n -> Items] : n \in 0..MaxItems}

(* ---------------------------- all_together ----------------------------- *)
SupportedDimLoose(x) == Ndim(x) >= 3

SupportedDim(x) == Ndim(x) = 4 \/ Ndim(x) = 3

BatchSizeDim0(x) == Size0(x)

BatchSize(x) == IF Ndim(x) = 4 THEN Size0(x) ELSE 1

BatchShape(x) == IF Ndim(x) = 4 THEN x ELSE Unsqueeze0(x)

TrueArgmax(item) == [k \in DOMAIN item.pix |-> Argmax(Clamp01(item.pix[k].true))]

PredArgmax(item) == [k \in DOMAIN item.pix |-> Argmax(item.pix[k].pred)]

\* torch.eq(pred_argmax, true_argmax).float().mean().item()
BatchAccuracy(item) ==
    Rat(CountEq(PredArgmax(item), TrueArgmax(item)), Len(item.pix))

AdvanceSkip(i) == i + 2

Advance(i) == i + 1

\* sklearn.metrics.confusion_matrix(y_true, y_pred, labels=range(6))
ConfusionMatrix(yTrue, yPred) ==
    [i \in 0..(NumLabels - 1) |-> [j \in 0..(NumLabels - 1) |->
        Cardinality({k \in DOMAIN yTrue : yTrue[k] = i /\ yPred[k] = j})]]

LabelsMissing(yTrue) == \A k \in DOMAIN yTrue : yTrue[k] \notin 0..(NumLabels - 1)

\* lines 124-126: the accumulators before the first iteration
Acc0 == [logits |-> <<>>, targets |-> <<>>, total |-> 0, correct |-> Zero,
         bce |-> Zero, dice |-> Zero, iou |-> Zero]

BodyCountBatches(a, item) ==
    LET size == BatchSize(item.x)
    IN  [bce     |-> RAdd(a.bce, RMulInt(item.loss.bce, size)),
         logits  |-> Append(a.logits, PredArgmax(item)),
         targets |-> Append(a.targets, TrueArgmax(item)),
         correct |-> RAdd(a.correct, RMulInt(BatchAccuracy(item), size)),
         dice    |-> RAdd(a.dice, RMulInt(item.loss.dice, size)),
         iou     |-> RAdd(a.iou, RMulInt(item.loss.iou, size)),
         total   |-> a.total + 1]

\* lines 136-151: the accumulators after one more batch
Body(a, item) ==
    LET size == BatchSize(item.x)
    IN  [bce     |-> RAdd(a.bce, RMulInt(item.loss.bce, size)),
         logits  |-> Append(a.logits, PredArgmax(item)),
         targets |-> Append(a.targets, TrueArgmax(item)),
         correct |-> RAdd(a.correct, RMulInt(BatchAccuracy(item), size)),
         dice    |-> RAdd(a.dice, RMulInt(item.loss.dice, size)),
         iou     |-> RAdd(a.iou, RMulInt(item.loss.iou, size)),
         total   |-> a.total + size]

\* lines 152-158: concatenation, confusion matrix and the four means
Means(a) ==
    [logits |-> Cat(a.logits), targets |-> Cat(a.targets), total |-> a.total,
     cm |-> ConfusionMatrix(Cat(a.targets), Cat(a.logits)),
     correct |-> RDivInt(a.correct, a.total), bce |-> RDivInt(a.bce, a.total),
     dice |-> RDivInt(a.dice, a.total), iou |-> RDivInt(a.iou, a.total)]

NoOutput == [printed |-> <<>>, ret |-> <<>>]

SummaryFlip(m, v) ==
    [printed |-> IF v THEN <<[bce  |-> Fixed(m.bce, 5),
                              dice |-> Fixed(RSubFrom(1, m.dice), 5),
                              iou  |-> Fixed(RSubFrom(1, m.iou), 5),
                              acc  |-> Fixed(RMulInt(m.correct, 100), 4)]>>
                 ELSE <<>>,
     ret |-> <<[bce |-> m.bce,
                dice |-> IF v THEN RSubFrom(1, m.dice) ELSE m.dice,
                iou |-> IF v THEN RSubFrom(1, m.iou) ELSE m.iou,
                correct |-> m.correct, cm |-> m.cm]>>]

\* lines 159-168: the printed summary and the returned tuple
Summary(m, v) ==
    [printed |-> IF v THEN <<[bce  |-> Fixed(m.bce, 5),
                              dice |-> Fixed(RSubFrom(1, m.dice), 5),
                              iou  |-> Fixed(RSubFrom(1, m.iou), 5),
                              acc  |-> Fixed(RMulInt(m.correct, 100), 4)]>>
                 ELSE <<>>,
     ret |-> <<[bce |-> m.bce, dice |-> m.dice, iou |-> m.iou,
                correct |-> m.correct, cm |-> m.cm]>>]

Init ==
    /\ dataset \in Datasets
    /\ verbose \in BOOLEAN
    /\ pc = "start"
    /\ idx = 0
    /\ evalMode = FALSE
    /\ calls = <<>>
    /\ acc = Acc0
    /\ out = NoOutput
    /\ err = "none"
    /\ call = <<>>
    /\ fig = <<>>

\* lines 117-126: iterator, model.eval(), accumulators
Enter ==
    /\ pc = "start"
    /\ pc' = "loop"
    /\ evalMode' = TRUE
    /\ idx' = 0
    /\ acc' = Acc0
    /\ UNCHANGED <<dataset, verbose, calls, out, err, call, fig>>

\* lines 127-151: one iteration on an item of supported dimensionality
Step ==
    /\ pc = "loop"
    /\ Advance(idx) <= Len(dataset)
    /\ SupportedDim(dataset[Advance(idx)].x)
    /\ idx' = Advance(idx)
    /\ calls' = Append(calls, [item |-> Advance(idx), eval |-> evalMode,
                                shape |-> BatchShape(dataset[Advance(idx)].x)])
    /\ acc' = Body(acc, dataset[Advance(idx)])
    /\ UNCHANGED <<dataset, verbose, pc, evalMode, out, err, call, fig>>

\* lines 127-135: the item's dimensionality is neither 4 nor 3
RaiseTypeError ==
    /\ pc = "loop"
    /\ Advance(idx) <= Len(dataset)
    /\ ~SupportedDim(dataset[Advance(idx)].x)
    /\ idx' = Advance(idx)
    /\ pc' = "raised"
    /\ err' = "TypeError"
    /\ UNCHANGED <<dataset, verbose, evalMode, calls, acc, out, call, fig>>

\* lines 152-168: the iterator is exhausted
Finish ==
    /\ pc = "loop"
    /\ Advance(idx) > Len(dataset)
    /\ IF acc.logits = <<>>
       THEN \* torch.cat of an empty list
            /\ pc' = "raised"
            /\ err' = "RuntimeError"
            /\ UNCHANGED <<acc, out>>
       ELSE IF LabelsMissing(Cat(acc.targets))
       THEN \* confusion_matrix: no label of range(6) occurs in y_true
            /\ pc' = "raised"
            /\ err' = "ValueError"
            /\ acc' = [acc EXCEPT !.logits = Cat(acc.logits), !.targets = Cat(acc.targets)]
            /\ UNCHANGED out
       ELSE /\ acc' = Means(acc)
            /\ out' = Summary(acc', verbose)
            /\ pc' = "returned"
            /\ err' = "none"
    /\ UNCHANGED <<dataset, verbose, idx, evalMode, calls, call, fig>>

Next == Enter \/ Step \/ RaiseTypeError \/ Finish

Spec == Init /\ [][Next]_vars

(* ----------------------- properties of all_together -------------------- *)
\* (a singleton comprehension binds an intermediate value once)
RECURSIVE Fold(_)
Fold(ds) == IF ds = <<>> THEN Acc0
            ELSE CHOOSE r \in {Body(a, ds[Len(ds)]) : a \in {Fold(SubSeq(ds, 1, Len(ds) - 1))}} : TRUE

\* the result of a complete evaluation of a non-empty dataset of supported items
RunOn(ds, v) == CHOOSE r \in {Summary(m, v) : m \in {Means(a) : a \in {Fold(ds)}}} : TRUE

\* every 3-D item replaced by its unsqueezed 4-D form (same storage)
Unsqueezed(ds) ==
    [k \in DOMAIN ds |-> IF Len(ds[k].x) = 3 THEN [ds[k] EXCEPT !.x = <<1>> \o @]
                         ELSE ds[k]]

Unsupported(item) == Len(item.x) \notin {3, 4}

TrueClass(p) == Argmax(Clamp01(p.true))

PredClass(p) == Argmax(p.pred)

SizeOf(item) == IF Len(item.x) = 4 THEN item.x[1] ELSE 1

PerBatch(item, key) ==
    IF key = "correct"
    THEN Rat(Cardinality({k \in DOMAIN item.pix : PredClass(item.pix[k]) = TrueClass(item.pix[k])}),
             Len(item.pix))
    ELSE item.loss[key]

RECURSIVE WeightedSum(_, _)
WeightedSum(ds, key) ==
    IF ds = <<>> THEN Zero
    ELSE CHOOSE r \in {RAdd(w, RMulInt(PerBatch(Head(ds), key), SizeOf(Head(ds)))) :
                           w \in {WeightedSum(Tail(ds), key)}} : TRUE

RECURSIVE TotalSize(_)
TotalSize(ds) == IF ds = <<>> THEN 0 ELSE SizeOf(Head(ds)) + TotalSize(Tail(ds))

RECURSIVE PixelCount(_, _, _)
PixelCount(ds, i, j) ==
    IF ds = <<>> THEN 0
    ELSE Cardinality({k \in DOMAIN Head(ds).pix :
                        TrueClass(Head(ds).pix[k]) = i /\ PredClass(Head(ds).pix[k]) = j})
         + PixelCount(Tail(ds), i, j)

RECURSIVE TotalPixels(_)
TotalPixels(ds) == IF ds = <<>> THEN 0 ELSE Len(Head(ds).pix) + TotalPixels(Tail(ds))

RECURSIVE SumOver(_, _, _)
SumOver(cm, rows, cols) ==
    IF rows = {} THEN 0
    ELSE LET i == CHOOSE r \in rows : TRUE
             RECURSIVE RowTotal(_)
             RowTotal(cs) == IF cs = {} THEN 0
                             ELSE LET j == CHOOSE c \in cs : TRUE
                                  IN  cm[i][j] + RowTotal(cs \ {j})
         IN  RowTotal(cols) + SumOver(cm, rows \ {i}, cols)

\* C1: an item whose input has a number of dimensions other than 3 or 4 makes
\* all_together raise TypeError as soon as it is read: the model is not invoked
\* on it, nothing is printed and nothing is returned, however many supported
\* items were processed before it.
C1_TypeErrorOnUnsupportedDim ==
    \A k \in 1..Len(dataset) :
        (k <= idx /\ Unsupported(dataset[k])) =>
            /\ pc = "raised"
            /\ err = "TypeError"
            /\ idx = k
            /\ \A c \in DOMAIN calls : calls[c].item # k
            /\ Len(calls) = k - 1
            /\ out.printed = <<>>
            /\ out.ret = <<>>

C1_Witness ==
    /\ pc = "raised"
    /\ err = "TypeError"
    /\ Len(calls) >= 1
    /\ Unsupported(dataset[idx])

\* C2: when all_together returns, each of bce, dice, iou and correct is the sum
\* over the batches of (per-batch value x batch size) divided by the sum of the
\* batch sizes, a 4-D input counting x.size(0) and a 3-D input counting 1.
C2_WeightedMeans ==
    pc = "returned" =>
        \A key \in {"bce", "dice", "iou", "correct"} :
            out.ret[1][key] = RDivInt(WeightedSum(dataset, key), TotalSize(dataset))

C2_Witness ==
    /\ pc = "returned"
    /\ Len(dataset) = 2
    /\ Len(dataset[1].x) = 3
    /\ Len(dataset[2].x) = 4
    /\ dataset[2].x[1] = 2
    /\ dataset[1].loss # dataset[2].loss
    /\ out.ret[1].correct \notin {<<0, 1>>, <<1, 1>>}

\* C3: the returned confusion matrix has one row and one column per class of
\* the model output, entry (i, j) counts the pixels of true class i predicted
\* as class j, and the entries sum to the number of pixels evaluated.
C3_ConfusionMatrixPerClass ==
    pc = "returned" =>
        LET cm == out.ret[1].cm
            classes == 0..(NumClasses - 1)
        IN  /\ DOMAIN cm = classes
            /\ \A i \in classes : DOMAIN cm[i] = classes
            /\ \A i \in classes : \A j \in classes : cm[i][j] = PixelCount(dataset, i, j)
            /\ SumOver(cm, classes, classes) = TotalPixels(dataset)

\* C6: the loop is a single pass: the model is in eval mode at every forward
\* call, the k-th forward call is on the k-th item of the dataset, and a result
\* is returned only when every item has been read and forwarded once.
C6_SinglePass ==
    /\ \A k \in DOMAIN calls : calls[k].item = k /\ calls[k].eval
    /\ Len(calls) <= idx
    /\ idx <= Len(dataset)
    /\ pc = "loop" => Len(calls) = idx
    /\ out.ret # <<>> => (pc = "returned" /\ idx = Len(dataset) /\ Len(calls) = Len(dataset))

C6_Witness ==
    /\ pc = "returned"
    /\ Len(calls) >= 2
    /\ Len(calls) = Len(dataset)

\* C7: the five returned values are those of the evaluation of the dataset in
\* which every 3-D item is replaced by its unsqueezed 4-D batch of size 1.
C7_UnsqueezeEquivalence ==
    pc = "returned" =>
        /\ out.ret = RunOn(Unsqueezed(dataset), verbose).ret
        /\ \A k \in DOMAIN calls : calls[k].shape = Unsqueezed(dataset)[k].x

C7_Witness ==
    /\ pc = "returned"
    /\ \E k \in DOMAIN dataset : Len(dataset[k].x) = 3
    /\ \E k \in DOMAIN dataset : Len(dataset[k].x) = 4 /\ dataset[k].x[1] = 2
    /\ Unsqueezed(dataset) # dataset

\* C8: verbose only decides whether the summary is printed: it is printed
\* exactly when verbose is true, the returned tuple is the one returned with
\* the other value of verbose, and the printed Dice-Coefficient, Intersection
\* over Union and Pixel-Wise Accuracy are 1 - dice, 1 - iou and 100 x correct
\* of the returned tuple, in the 5, 5 and 4 decimals of their formats.
C8_VerboseOnlyPrints ==
    /\ pc # "returned" => out.printed = <<>>
    /\ pc = "returned" =>
        /\ (out.printed # <<>>) <=> verbose
        /\ out.ret = RunOn(dataset, ~verbose).ret
        /\ verbose =>
            /\ out.printed[1].dice = Fixed(RSubFrom(1, out.ret[1].dice), 5)
            /\ out.printed[1].iou = Fixed(RSubFrom(1, out.ret[1].iou), 5)
            /\ out.printed[1].acc = Fixed(RMulInt(out.ret[1].correct, 100), 4)

C8_Witness ==
    /\ pc = "returned"
    /\ verbose
    /\ out.printed # <<>>
    /\ out.ret[1].dice[2] = 3
    /\ Len(dataset) >= 2

(* ------------------------ draw_confusion_matrix ------------------------ *)
Cells(n) == (1..n) \X (1..n)

ZeroMatrix(n) == [i \in 1..n |-> [j \in 1..n |-> 0]]

RECURSIVE Tally(_, _)
Tally(n, samples) ==
    IF samples = <<>> THEN ZeroMatrix(n)
    ELSE LET m == Tally(n, Tail(samples))
             c == Head(samples)
         IN  [m EXCEPT ![c[1]][c[2]] = @ + 1]

\* the n x n count matrices of at most MaxTotal observations
Matrices(n) == {Tally(n, s) : s \in UNION {[1..k -> Cells(n)] : k \in 0..MaxTotal}}

RECURSIVE SumSeq(_)
SumSeq(s) == IF s = <<>> THEN 0 ELSE Head(s) + SumSeq(Tail(s))

\* cf.flatten(): row-major
Flatten(cf) == Cat(cf)

NpSum(cf) == SumSeq(Flatten(cf))

NpTrace(cf) == SumSeq([i \in DOMAIN cf |-> cf[i][i]])

ColSum(cf, j) == SumSeq([i \in DOMAIN cf |-> cf[i][j]])

RowSum(cf, i) == SumSeq(cf[i])

\* cf -= np.diagflat(np.diagonal(cf))
OmitDiagonal(cf) == [i \in DOMAIN cf |-> [j \in DOMAIN cf |-> IF i = j THEN 0 ELSE cf[i][j]]]

\* lines 44-59
StatsText(a) ==
    IF ~a.omit_diagonal /\ a.sum_stats
    THEN LET cf == a.cf
             accuracy == NpDiv(NpInt(NpTrace(cf)), NpInt(NpSum(cf)))
         IN  IF Len(cf) = 2
             THEN LET precision == NpDiv(NpInt(cf[2][2]), NpInt(ColSum(cf, 2)))
                      recall == NpDiv(NpInt(cf[2][2]), NpInt(RowSum(cf, 2)))
                      f1_score == NpDiv(NpMul(NpInt(2), NpMul(precision, recall)),
                                        NpAdd(precision, recall))
                  IN  << <<"Accuracy", Fixed3(accuracy)>>,
                         <<"Precision", Fixed3(precision)>>,
                         <<"Recall", Fixed3(recall)>>,
                         <<"F1 Score", Fixed3(f1_score)>> >>
             ELSE << <<"Accuracy", Fixed3(accuracy)>> >>
    ELSE <<>>

BoxLabelsStale(cf, a) ==
    LET n == Len(cf)
        flat == Flatten(cf)
        sum == NpSum(a.cf)
        named == a.group_names # <<>> /\ Len(a.group_names) = Len(flat)
        group_labels == [k \in DOMAIN flat |->
            IF named THEN << <<"name", <<"num", a.group_names[k]>> >> >> ELSE <<>>]
        group_counts == [k \in DOMAIN flat |->
            IF a.count THEN << <<"count", <<"num", flat[k]>> >> >> ELSE <<>>]
        group_percentages == [k \in DOMAIN flat |->
            IF a.percent THEN << <<"percent", Percent2(NpDiv(NpInt(flat[k]), NpInt(sum)))>> >>
            ELSE <<>>]
        box_labels == [k \in DOMAIN flat |->
            group_labels[k] \o group_counts[k] \o group_percentages[k]]
    IN  [i \in 1..n |-> [j \in 1..n |-> box_labels[(i - 1) * n + j]]]

\* lines 64-83: the text of each square, from the matrix that is drawn;
\* strip() leaves the parts that are present, joined by newlines
BoxLabels(cf, a) ==
    LET n == Len(cf)
        flat == Flatten(cf)
        sum == NpSum(cf)
        named == a.group_names # <<>> /\ Len(a.group_names) = Len(flat)
        group_labels == [k \in DOMAIN flat |->
            IF named THEN << <<"name", <<"num", a.group_names[k]>> >> >> ELSE <<>>]
        group_counts == [k \in DOMAIN flat |->
            IF a.count THEN << <<"count", <<"num", flat[k]>> >> >> ELSE <<>>]
        group_percentages == [k \in DOMAIN flat |->
            IF a.percent THEN << <<"percent", Percent2(NpDiv(NpInt(flat[k]), NpInt(sum)))>> >>
            ELSE <<>>]
        box_labels == [k \in DOMAIN flat |->
            group_labels[k] \o group_counts[k] \o group_percentages[k]]
    IN  [i \in 1..n |-> [j \in 1..n |-> box_labels[(i - 1) * n + j]]]

\* line 86
BlankDiagonal(labels) ==
    [i \in DOMAIN labels |-> [j \in DOMAIN labels |-> IF i = j THEN <<>> ELSE labels[i][j]]]

\* lines 43-108: the figure; heat is the array passed as cf, which line 62
\* changes in place
Figure(a) ==
    LET stats_text == StatsText(a)
        cf == IF a.omit_diagonal THEN OmitDiagonal(a.cf) ELSE a.cf
        box_labels == IF a.omit_diagonal THEN BlankDiagonal(BoxLabels(cf, a))
                      ELSE BoxLabels(cf, a)
    IN  [heat   |-> cf,
         annot  |-> box_labels,
         ylabel |-> IF a.xyplotlabels THEN "True label" ELSE "",
         xlabel |-> [text |-> IF a.xyplotlabels THEN "Predicted label" ELSE "",
                     stats |-> stats_text]]

\* None, or one name per square
GroupNames(n) == {<<>>, [k \in 1..(n * n) |-> k]}

DrawCalls ==
    UNION {[cf : Matrices(n), group_names : GroupNames(n), count : BOOLEAN,
            percent : BOOLEAN, xyplotlabels : BOOLEAN,
            sum_stats : BOOLEAN, omit_diagonal : BOOLEAN] : n \in 2..MaxDim}

InitDraw ==
    /\ call \in {<<c>> : c \in DrawCalls}
    /\ fig = <<>>
    /\ dataset = <<>>
    /\ verbose = FALSE
    /\ pc = "idle"
    /\ idx = 0
    /\ evalMode = FALSE
    /\ calls = <<>>
    /\ acc = Acc0
    /\ out = NoOutput
    /\ err = "none"

\* one call of draw_confusion_matrix with the arguments call[1]
Draw ==
    /\ call # <<>>
    /\ fig = <<>>
    /\ fig' = <<Figure(call[1])>>
    /\ UNCHANGED call
    /\ UNCHANGED evalVars

NextDraw == Draw

SpecDraw == InitDraw /\ [][NextDraw]_vars

(* ------------------- properties of draw_confusion_matrix --------------- *)
OffDiagonalSum(cf) == NpSum(cf) - NpTrace(cf)

PercentOf(label) == {label[p][2] : p \in {q \in DOMAIN label : label[q][1] = "percent"}}

StatNames(stats) == [k \in DOMAIN stats |-> stats[k][1]]

\* C4: with sum_stats=True the x-axis label carries the summary statistics:
\* Accuracy = trace(cf) / sum(cf), and for a 2x2 matrix also Precision,
\* Recall and F1 Score, whatever the other arguments are.
C4_SumStatsShown ==
    (fig # <<>> /\ call[1].sum_stats) =>
        LET stats == fig[1].xlabel.stats
            cf == call[1].cf
        IN  /\ stats # <<>>
            /\ stats[1] = <<"Accuracy", Fixed3(NpDiv(NpInt(NpTrace(cf)), NpInt(NpSum(cf))))>>
            /\ Len(cf) = 2 => StatNames(stats) = <<"Accuracy", "Precision", "Recall", "F1 Score">>

\* C5: with omit_diagonal=True every diagonal cell of the heatmap is 0 with an
\* empty annotation, every off-diagonal cell keeps the count that was passed,
\* and a percentage shown in an off-diagonal cell is that count divided by the
\* sum of the off-diagonal counts.
C5_OmitDiagonal ==
    (fig # <<>> /\ call[1].omit_diagonal) =>
        LET cf == call[1].cf
            f == fig[1]
            others == OffDiagonalSum(cf)
        IN  \A i \in DOMAIN cf : \A j \in DOMAIN cf :
                IF i = j
                THEN f.heat[i][j] = 0 /\ f.annot[i][j] = <<>>
                ELSE /\ f.heat[i][j] = cf[i][j]
                     /\ call[1].percent =>
                            PercentOf(f.annot[i][j])
                              = {Percent2(NpDiv(NpInt(cf[i][j]), NpInt(others)))}
                     /\ ~call[1].percent => PercentOf(f.annot[i][j]) = {}

C5_Witness ==
    /\ fig # <<>>
    /\ call[1].omit_diagonal
    /\ call[1].percent
    /\ NpTrace(call[1].cf) > 0
    /\ \E i \in DOMAIN call[1].cf : \E j \in DOMAIN call[1].cf :
          i # j /\ call[1].cf[i][j] > 0 /\ call[1].cf[i][j] < OffDiagonalSum(call[1].cf)

====
